---- MODULE Spec2Model ----
(***************************************************************************)
(* A model of sqlalchemy_helpers: the filter builder (filter.py) and the   *)
(* pagination helpers (pagination.py).  Every operation of the package is  *)
(* a synchronous call; a behaviour is one call: the initial state holds    *)
(* the call's arguments (pc = "call") and the single step runs the whole   *)
(* function body, ending in pc = "returned" or pc = "raised".              *)
(***************************************************************************)
EXTENDS Integers, Sequences, FiniteSets

VARIABLES
    fn,              \* the function the call is of
    pc,              \* "call" | "returned" | "raised"
    exc,             \* the exception that left the call ("" when none)
    field,           \* get_filter_arg: field
    value,           \* get_filter_arg: value
    filter_type,     \* get_filter_arg: filter_type
    filter_arg,      \* get_filter_arg: the returned expression
    args,            \* get_filtered_query / get_page_args: args (a dict)
    field_config,    \* get_filtered_query: field_config (a dict, in insertion order)
    join_models,     \* get_filtered_query: join_models
    ignore_deleted,  \* get_filtered_query: ignore_deleted
    query,           \* get_filtered_query: the returned query;
                     \* get_paginated_data: the rows the query selects
    page_args,       \* get_paginated_data: page_args; get_page_args: the returned dict
    serialized_data  \* get_paginated_data: the returned payload

vars == <<fn, pc, exc, field, value, filter_type, filter_arg, args, field_config,
          join_models, ignore_deleted, query, page_args, serialized_data>>

(***************************************************************************)
(* Python values.  A value carries its type tag; a str is the sequence of  *)
(* its characters, a list the sequence of its (integer) elements.          *)
(***************************************************************************)
None == [t |-> "none"]
VBool(b) == [t |-> "bool", v |-> b]
VInt(n) == [t |-> "int", v |-> n]
VStr(s) == [t |-> "str", v |-> s]
VList(l) == [t |-> "list", v |-> l]

\* A variable of a call that is not the one being modelled.
Unused == "unused"

\* bool(x): None, False, 0, '' and [] are falsy.
Truthy(x) ==
    CASE x.t = "none" -> FALSE
      [] x.t = "bool" -> x.v
      [] x.t = "int" -> x.v # 0
      [] x.t = "str" -> Len(x.v) > 0
      [] x.t = "list" -> Len(x.v) > 0

\* dict.get(key): None when the key is missing.
DictGet(d, key) == IF key \in DOMAIN d THEN d[key] ELSE None

\* x or default
OrDefault(x, default) == IF Truthy(x) THEN x ELSE default

\* The dict d without the key `key`.
DictWithout(d, key) == [k \in DOMAIN d \ {key} |-> d[k]]

\* str(n) for an integer n >= 0: its decimal digits.
Digit(d) ==
    CASE d = 0 -> "0" [] d = 1 -> "1" [] d = 2 -> "2" [] d = 3 -> "3" [] d = 4 -> "4"
      [] d = 5 -> "5" [] d = 6 -> "6" [] d = 7 -> "7" [] d = 8 -> "8" [] d = 9 -> "9"

RECURSIVE StrOfNat(_)
StrOfNat(n) == IF n < 10 THEN <<Digit(n)>> ELSE StrOfNat(n \div 10) \o <<Digit(n % 10)>>

\* ', '.join(str(e) for e in l)
RECURSIVE JoinInts(_)
JoinInts(l) ==
    IF Len(l) = 0 THEN <<>>
    ELSE IF Len(l) = 1 THEN StrOfNat(l[1])
    ELSE StrOfNat(l[1]) \o <<",", " ">> \o JoinInts(Tail(l))

\* The text an f-string puts for {value}: format(value, ''), i.e. str(value).
Format(x) ==
    CASE x.t = "none" -> <<"N", "o", "n", "e">>
      [] x.t = "bool" -> IF x.v THEN <<"T", "r", "u", "e">> ELSE <<"F", "a", "l", "s", "e">>
      [] x.t = "int" -> StrOfNat(x.v)
      [] x.t = "str" -> x.v
      [] x.t = "list" -> <<"[">> \o JoinInts(x.v) \o <<"]">>

(***************************************************************************)
(* filter.py: get_filter_arg.  A column expression is the record of the    *)
(* operator method called on the field and the operand handed to it.       *)
(***************************************************************************)
Expr(f, operator, operand) == [op |-> operator, field |-> f, arg |-> operand]

\* An exception leaving a function, in place of its return value.
Raise(e) == [raised |-> e]
Raised(x) == "raised" \in DOMAIN x

\* get_filter_arg with the final else branch falling back to equality.
get_filter_arg_DefaultEq(f, val, ft) ==
    CASE ft = "eq" -> Expr(f, "==", val)
      [] ft = "ne" -> Expr(f, "!=", val)
      [] ft = "lt" -> Expr(f, "<", val)
      [] ft = "le" -> Expr(f, "<=", val)
      [] ft = "gt" -> Expr(f, ">", val)
      [] ft = "ge" -> Expr(f, ">=", val)
      [] ft = "like" -> Expr(f, "like", VStr(<<"%">> \o Format(val) \o <<"%">>))
      [] ft = "ilike" -> Expr(f, "ilike", VStr(<<"%">> \o Format(val) \o <<"%">>))
      [] ft = "starts" -> Expr(f, "startswith", val)
      [] ft = "ends" -> Expr(f, "endswith", val)
      [] ft = "istarts" -> Expr(f, "ilike", VStr(Format(val) \o <<"%">>))
      [] ft = "iends" -> Expr(f, "ilike", VStr(<<"%">> \o Format(val)))
      [] ft = "in" -> Expr(f, "in_", val)
      [] ft = "not_in" -> Expr(f, "notin_", val)
      [] ft = "contains" -> Expr(f, "contains", val)
      [] ft = "is_null" -> Expr(f, "is_", None)
      [] ft = "is_not_null" -> Expr(f, "isnot", None)
      [] OTHER -> Expr(f, "==", val)

\* get_filter_arg with the wildcards of istarts and iends on the wrong side.
get_filter_arg_SwappedSides(f, val, ft) ==
    CASE ft = "eq" -> Expr(f, "==", val)
      [] ft = "ne" -> Expr(f, "!=", val)
      [] ft = "lt" -> Expr(f, "<", val)
      [] ft = "le" -> Expr(f, "<=", val)
      [] ft = "gt" -> Expr(f, ">", val)
      [] ft = "ge" -> Expr(f, ">=", val)
      [] ft = "like" -> Expr(f, "like", VStr(<<"%">> \o Format(val) \o <<"%">>))
      [] ft = "ilike" -> Expr(f, "ilike", VStr(<<"%">> \o Format(val) \o <<"%">>))
      [] ft = "starts" -> Expr(f, "startswith", val)
      [] ft = "ends" -> Expr(f, "endswith", val)
      [] ft = "istarts" -> Expr(f, "ilike", VStr(<<"%">> \o Format(val)))
      [] ft = "iends" -> Expr(f, "ilike", VStr(Format(val) \o <<"%">>))
      [] ft = "in" -> Expr(f, "in_", val)
      [] ft = "not_in" -> Expr(f, "notin_", val)
      [] ft = "contains" -> Expr(f, "contains", val)
      [] ft = "is_null" -> Expr(f, "is_", None)
      [] ft = "is_not_null" -> Expr(f, "isnot", None)
      [] OTHER -> Raise("ValueError")

\* get_filter_arg(field, value, filter_type): the expression, or the exception.
get_filter_arg(f, val, ft) ==
    CASE ft = "eq" -> Expr(f, "==", val)
      [] ft = "ne" -> Expr(f, "!=", val)
      [] ft = "lt" -> Expr(f, "<", val)
      [] ft = "le" -> Expr(f, "<=", val)
      [] ft = "gt" -> Expr(f, ">", val)
      [] ft = "ge" -> Expr(f, ">=", val)
      [] ft = "like" -> Expr(f, "like", VStr(<<"%">> \o Format(val) \o <<"%">>))
      [] ft = "ilike" -> Expr(f, "ilike", VStr(<<"%">> \o Format(val) \o <<"%">>))
      [] ft = "starts" -> Expr(f, "startswith", val)
      [] ft = "ends" -> Expr(f, "endswith", val)
      [] ft = "istarts" -> Expr(f, "ilike", VStr(Format(val) \o <<"%">>))
      [] ft = "iends" -> Expr(f, "ilike", VStr(<<"%">> \o Format(val)))
      [] ft = "in" -> Expr(f, "in_", val)
      [] ft = "not_in" -> Expr(f, "notin_", val)
      [] ft = "contains" -> Expr(f, "contains", val)
      [] ft = "is_null" -> Expr(f, "is_", None)
      [] ft = "is_not_null" -> Expr(f, "isnot", None)
      [] OTHER -> Raise("ValueError")

\* The filter types get_filter_arg has a branch for.
SupportedLookups ==
    {"eq", "ne", "lt", "le", "gt", "ge", "like", "ilike", "starts", "ends",
     "istarts", "iends", "in", "not_in", "contains", "is_null", "is_not_null"}

\* Inputs of the modelled calls of get_filter_arg.
ArgFields == {"name", "deleted"}
ArgLookups == SupportedLookups \cup {"regex", "EQ", ""}
ArgValues ==
    {None, VBool(FALSE), VBool(TRUE), VInt(0), VInt(7), VInt(12),
     VStr(<<>>), VStr(<<"a">>), VStr(<<"a", "%">>),
     VList(<<>>), VList(<<1>>), VList(<<1, 2>>)}

InitFilterArg ==
    /\ fn = "get_filter_arg"
    /\ pc = "call"
    /\ exc = ""
    /\ field \in ArgFields
    /\ value \in ArgValues
    /\ filter_type \in ArgLookups
    /\ filter_arg = Unused
    /\ args = Unused
    /\ field_config = Unused
    /\ join_models = Unused
    /\ ignore_deleted = Unused
    /\ query = Unused
    /\ page_args = Unused
    /\ serialized_data = Unused

\* One call get_filter_arg(field, value, filter_type).
CallGetFilterArg ==
    /\ fn = "get_filter_arg"
    /\ pc = "call"
    /\ LET r == get_filter_arg(field, value, filter_type)
       IN IF Raised(r)
          THEN /\ pc' = "raised"
               /\ exc' = r.raised
               /\ UNCHANGED filter_arg
          ELSE /\ pc' = "returned"
               /\ filter_arg' = r
               /\ UNCHANGED exc
    /\ UNCHANGED <<fn, field, value, filter_type, args, field_config, join_models,
                   ignore_deleted, query, page_args, serialized_data>>

(***************************************************************************)
(* filter.py: get_filtered_query.  field_config is a dict in insertion     *)
(* order: a sequence of items [key, value], the value a dict (one field    *)
(* configuration) or a list of them.  A field configuration is a dict with *)
(* the key 'field' and, optionally, 'look_up' and 'wrapper'.               *)
(***************************************************************************)
ConfigDict(c) == [type |-> "dict", dict |-> c]
ConfigList(l) == [type |-> "list", list |-> l]

\* or_(*clauses)
Or(clauses) == [op |-> "or_", clauses |-> clauses]

\* wrapper(filter_arg), for the callable named w
Wrap(w, e) == [op |-> "wrapper", wrapper |-> w, arg |-> e]

\* model.deleted == False
NotDeleted == Expr("deleted", "==", VBool(FALSE))

\* The body both loops share: the filter argument of one field configuration
\* for args[key]: none when args.get(key) is falsy.
ConfigArg(c, key, a) ==
    LET f == c.field
        ft == IF "look_up" \in DOMAIN c THEN c.look_up ELSE "eq"
        data_value == DictGet(a, key)
    IN IF ~Truthy(data_value)
       THEN [exprs |-> <<>>]
       ELSE LET e == get_filter_arg(f, a[key], ft)
            IN IF Raised(e) THEN e
               ELSE [exprs |-> <<IF "wrapper" \in DOMAIN c THEN Wrap(c.wrapper, e) ELSE e>>]

\* The inner loop: or_filter_arguments of a list of field configurations.
RECURSIVE OrFilterArguments(_, _, _)
OrFilterArguments(l, key, a) ==
    IF Len(l) = 0 THEN [exprs |-> <<>>]
    ELSE LET h == ConfigArg(Head(l), key, a)
         IN IF Raised(h) THEN h
            ELSE LET t == OrFilterArguments(Tail(l), key, a)
                 IN IF Raised(t) THEN t ELSE [exprs |-> h.exprs \o t.exprs]

\* ItemArguments with the alternatives extending filter_arguments themselves,
\* without or_.
ItemArguments_OrFlattened(item, a) ==
    IF item.value.type = "dict"
    THEN ConfigArg(item.value.dict, item.key, a)
    ELSE OrFilterArguments(item.value.list, item.key, a)

\* What one item of field_config appends to filter_arguments.
ItemArguments(item, a) ==
    IF item.value.type = "dict"
    THEN ConfigArg(item.value.dict, item.key, a)
    ELSE LET o == OrFilterArguments(item.value.list, item.key, a)
         IN IF Raised(o) THEN o ELSE [exprs |-> <<Or(o.exprs)>>]

\* The outer loop: filter_arguments after all the items of field_config.
RECURSIVE FilterArguments(_, _)
FilterArguments(items, a) ==
    IF Len(items) = 0 THEN [exprs |-> <<>>]
    ELSE LET h == ItemArguments(Head(items), a)
         IN IF Raised(h) THEN h
            ELSE LET t == FilterArguments(Tail(items), a)
                 IN IF Raised(t) THEN t ELSE [exprs |-> h.exprs \o t.exprs]

\* WithIgnoreDeleted without the test of the flag.
WithIgnoreDeleted_Always(exprs, flag) == Append(exprs, NotDeleted)

\* if ignore_deleted: filter_arguments.append(model.deleted == False)
WithIgnoreDeleted(exprs, flag) == IF flag THEN Append(exprs, NotDeleted) ELSE exprs

\* model.query with the joins, .filter(*filter_arguments).distinct(model.id)
Query(joins, exprs) ==
    [from |-> "model", join |-> joins, filter |-> exprs, distinct |-> "id"]

\* Inputs of the modelled calls of get_filtered_query.
MaxAlts == 2
Keys == {"name", "state"}
FieldConfigs ==
    {[field |-> "deleted"],
     [field |-> "name", look_up |-> "ilike", wrapper |-> "any"],
     [field |-> "name", look_up |-> "regex"]}
ConfigValues ==
    {ConfigDict(c) : c \in FieldConfigs}
        \cup {ConfigList(l) : l \in UNION {[1..n -> FieldConfigs] : n \in 0..MaxAlts}}
\* The orders in which the keys of a dict can have been inserted.
KeyOrders ==
    {ks \in UNION {[1..n -> Keys] : n \in 0..Cardinality(Keys)} :
        \A i, j \in 1..Len(ks) : i # j => ks[i] # ks[j]}
FilterConfigs ==
    UNION {{[i \in 1..Len(ks) |-> [key |-> ks[i], value |-> vs[i]]] :
                vs \in [1..Len(ks) -> ConfigValues]} : ks \in KeyOrders}
FilterArgValues == {None, VBool(FALSE), VInt(0), VStr(<<>>), VList(<<>>), VStr(<<"a">>)}
FilterArgs == UNION {[D -> FilterArgValues] : D \in SUBSET Keys}
JoinModels == {<<>>, <<"Tag">>}

InitFilteredQuery ==
    /\ fn = "get_filtered_query"
    /\ pc = "call"
    /\ exc = ""
    /\ args \in FilterArgs
    /\ field_config \in FilterConfigs
    /\ join_models \in JoinModels
    /\ ignore_deleted \in BOOLEAN
    /\ query = Unused
    /\ field = Unused
    /\ value = Unused
    /\ filter_type = Unused
    /\ filter_arg = Unused
    /\ page_args = Unused
    /\ serialized_data = Unused

\* One call get_filtered_query(model, args, field_config, join_models, ignore_deleted).
CallGetFilteredQuery ==
    /\ fn = "get_filtered_query"
    /\ pc = "call"
    /\ LET r == FilterArguments(field_config, args)
       IN IF Raised(r)
          THEN /\ pc' = "raised"
               /\ exc' = r.raised
               /\ UNCHANGED query
          ELSE /\ pc' = "returned"
               /\ query' = Query(join_models, WithIgnoreDeleted(r.exprs, ignore_deleted))
               /\ UNCHANGED exc
    /\ UNCHANGED <<fn, field, value, filter_type, filter_arg, args, field_config,
                   join_models, ignore_deleted, page_args, serialized_data>>

InitFilter == InitFilterArg \/ InitFilteredQuery

NextFilter == CallGetFilterArg \/ CallGetFilteredQuery

SpecFilter == InitFilter /\ [][NextFilter]_vars

(***************************************************************************)
(* pagination.py: get_paginated_data.  The query is the sequence of the    *)
(* rows it selects (row i is the integer i), in the order the database     *)
(* returns them.                                                           *)
(***************************************************************************)
DEFAULT_PAGE == 1
DEFAULT_SIZE == 10

\* ceil rounding down.
ceil_Floor(a, b) == a \div b

\* math.ceil(a / b) for integers a >= 0, b > 0 (the quotient is exact in a float
\* for every a modelled here).
ceil(a, b) == IF a % b = 0 THEN a \div b ELSE a \div b + 1

Min(a, b) == IF a < b THEN a ELSE b

\* get_paginated_queryset with the offset page * size.
get_paginated_queryset_OffsetPage(queryset, page, size) ==
    SubSeq(queryset, page * size + 1, Min(page * size + size, Len(queryset)))

\* queryset.limit(size).offset((page - 1) * size), and its .all()
get_paginated_queryset(queryset, page, size) ==
    LET offset == (page - 1) * size
    IN SubSeq(queryset, offset + 1, Min(offset + size, Len(queryset)))

\* SchemaClass().dump(row), for a row of the query
Dump(row) == [id |-> row]

\* page_args.get('page') or 1, page_args.get('size') or 10
PageOf(pa) == OrDefault(DictGet(pa, "page"), VInt(DEFAULT_PAGE)).v
SizeOf(pa) == OrDefault(DictGet(pa, "size"), VInt(DEFAULT_SIZE)).v

get_paginated_data(q, pa) ==
    LET page == PageOf(pa)
        size == SizeOf(pa)
        paginated_queryset == get_paginated_queryset(q, page, size)
        total_count == Len(q)
        total_page == ceil(total_count, size)
    IN [items |-> [i \in 1..Len(paginated_queryset) |-> Dump(paginated_queryset[i])],
        total_count |-> total_count,
        total_page |-> total_page,
        current_page |-> page,
        has_next |-> page < total_page,
        has_prev |-> page > 1]

\* Inputs of the modelled calls of get_paginated_data.
MaxRows == 25
MaxPage == 4
MaxSize == 10
Queries == {[i \in 1..n |-> i] : n \in 0..MaxRows}
PageValues == {None} \cup {VInt(n) : n \in 0..MaxPage}
SizeValues == {None} \cup {VInt(n) : n \in 0..MaxSize}
PageArgs ==
    {[k \in {} |-> None]}
        \cup {[page |-> p] : p \in PageValues}
        \cup {[size |-> z] : z \in SizeValues}
        \cup {[page |-> p, size |-> z] : p \in PageValues, z \in SizeValues}

InitPaginatedData ==
    /\ fn = "get_paginated_data"
    /\ pc = "call"
    /\ exc = ""
    /\ query \in Queries
    /\ page_args \in PageArgs
    /\ serialized_data = Unused
    /\ args = Unused
    /\ field = Unused
    /\ value = Unused
    /\ filter_type = Unused
    /\ filter_arg = Unused
    /\ field_config = Unused
    /\ join_models = Unused
    /\ ignore_deleted = Unused

\* One call get_paginated_data(query, page_args, SchemaClass).
CallGetPaginatedData ==
    /\ fn = "get_paginated_data"
    /\ pc = "call"
    /\ pc' = "returned"
    /\ serialized_data' = get_paginated_data(query, page_args)
    /\ UNCHANGED <<fn, exc, field, value, filter_type, filter_arg, args, field_config,
                   join_models, ignore_deleted, query, page_args>>

(***************************************************************************)
(* pagination.py: get_page_args.  args.pop(key) without a default raises   *)
(* KeyError when the key is missing; a pop that succeeded before the       *)
(* exception has already removed its key.                                  *)
(***************************************************************************)
\* Inputs of the modelled calls of get_page_args.
PopPageValues == {None, VInt(0), VInt(1), VInt(2)}
PopSizeValues == {None, VInt(0), VInt(10), VInt(20)}
OtherArgs == {[k \in {} |-> None], [q |-> VStr(<<"x">>)], [q |-> VStr(<<>>), sort |-> VInt(0)]}
Merge(d, e) == [k \in DOMAIN d \cup DOMAIN e |-> IF k \in DOMAIN e THEN e[k] ELSE d[k]]
PopArgs ==
    {Merge(o, pz) : o \in OtherArgs,
        pz \in {[k \in {} |-> None]}
            \cup {[page |-> p] : p \in PopPageValues}
            \cup {[size |-> z] : z \in PopSizeValues}
            \cup {[page |-> p, size |-> z] : p \in PopPageValues, z \in PopSizeValues}}

InitPageArgs ==
    /\ fn = "get_page_args"
    /\ pc = "call"
    /\ exc = ""
    /\ args \in PopArgs
    /\ page_args = Unused
    /\ query = Unused
    /\ serialized_data = Unused
    /\ field = Unused
    /\ value = Unused
    /\ filter_type = Unused
    /\ filter_arg = Unused
    /\ field_config = Unused
    /\ join_models = Unused
    /\ ignore_deleted = Unused

\* get_page_args reading the keys with args[key] in place of args.pop(key).
CallGetPageArgs_KeepsKeys ==
    /\ fn = "get_page_args"
    /\ pc = "call"
    /\ IF "page" \notin DOMAIN args \/ "size" \notin DOMAIN args
       THEN /\ pc' = "raised"
            /\ exc' = "KeyError"
            /\ UNCHANGED <<args, page_args>>
       ELSE /\ pc' = "returned"
            /\ UNCHANGED <<args, exc>>
            /\ page_args' = [page |-> OrDefault(args["page"], VInt(DEFAULT_PAGE)),
                             size |-> OrDefault(args["size"], VInt(DEFAULT_SIZE))]
    /\ UNCHANGED <<fn, field, value, filter_type, filter_arg, field_config,
                   join_models, ignore_deleted, query, serialized_data>>

\* One call get_page_args(args).
CallGetPageArgs ==
    /\ fn = "get_page_args"
    /\ pc = "call"
    /\ IF "page" \notin DOMAIN args
       THEN /\ pc' = "raised"
            /\ exc' = "KeyError"
            /\ UNCHANGED <<args, page_args>>
       ELSE IF "size" \notin DOMAIN args
       THEN /\ pc' = "raised"
            /\ exc' = "KeyError"
            /\ args' = DictWithout(args, "page")
            /\ UNCHANGED page_args
       ELSE /\ pc' = "returned"
            /\ args' = DictWithout(DictWithout(args, "page"), "size")
            /\ page_args' = [page |-> OrDefault(args["page"], VInt(DEFAULT_PAGE)),
                             size |-> OrDefault(args["size"], VInt(DEFAULT_SIZE))]
            /\ UNCHANGED exc
    /\ UNCHANGED <<fn, field, value, filter_type, filter_arg, field_config,
                   join_models, ignore_deleted, query, serialized_data>>

InitPager == InitPaginatedData \/ InitPageArgs

NextPager == CallGetPaginatedData \/ CallGetPageArgs

SpecPager == InitPager /\ [][NextPager]_vars

(***************************************************************************)
(* The documented contract of get_filter_arg (its docstring and the lookup *)
(* table), stated apart from the code above.                               *)
(***************************************************************************)
LookupEnumeration ==
    {"eq", "ne", "lt", "le", "gt", "ge", "like", "ilike", "starts", "ends", "istarts",
     "iends", "in", "not_in", "contains", "is_null", "is_not_null"}

DocumentedOperator ==
    [eq |-> "==", ne |-> "!=", lt |-> "<", le |-> "<=", gt |-> ">", ge |-> ">=",
     like |-> "like", ilike |-> "ilike", starts |-> "startswith", ends |-> "endswith",
     istarts |-> "ilike", iends |-> "ilike", in |-> "in_", not_in |-> "notin_",
     contains |-> "contains", is_null |-> "is_", is_not_null |-> "isnot"]

\* p is the LIKE pattern made of text with a wildcard before it (if lead) and
\* after it (if trail).
IsPattern(p, text, lead, trail) ==
    LET n == Len(text)
        a == IF lead THEN 1 ELSE 0
        b == IF trail THEN 1 ELSE 0
    IN /\ p.t = "str"
       /\ Len(p.v) = a + n + b
       /\ lead => p.v[1] = "%"
       /\ trail => p.v[a + n + 1] = "%"
       /\ \A i \in 1..n : p.v[a + i] = text[i]

\* The lookup of a field configuration: 'eq' when it names none.
LookupOf(c) == IF "look_up" \in DOMAIN c THEN c.look_up ELSE "eq"

\* The field configurations of an item of field_config.
ConfigsOf(item) ==
    IF item.value.type = "dict" THEN {item.value.dict}
    ELSE {item.value.list[n] : n \in 1..Len(item.value.list)}

Present(key) == Truthy(DictGet(args, key))

\* C1: a lookup outside the enumeration makes get_filter_arg raise ValueError and
\* return no expression; met by get_filtered_query for a key whose argument is
\* present, it makes the whole call raise and no query is returned.
C1_UnsupportedLookupRaises ==
    /\ (fn = "get_filter_arg" /\ pc # "call" /\ filter_type \notin LookupEnumeration)
          => (pc = "raised" /\ exc = "ValueError" /\ filter_arg = Unused)
    /\ (/\ fn = "get_filtered_query"
        /\ pc # "call"
        /\ \E i \in 1..Len(field_config) :
              /\ Present(field_config[i].key)
              /\ \E c \in ConfigsOf(field_config[i]) : LookupOf(c) \notin LookupEnumeration)
          => (pc = "raised" /\ exc = "ValueError" /\ query = Unused)

\* A call of get_filtered_query has failed on an unsupported lookup that stands
\* second in a list whose first alternative is supported.
C1_Witness ==
    /\ fn = "get_filtered_query"
    /\ pc = "raised"
    /\ \E i \in 1..Len(field_config) :
          /\ field_config[i].value.type = "list"
          /\ Len(field_config[i].value.list) = 2
          /\ LookupOf(field_config[i].value.list[1]) \in LookupEnumeration
          /\ LookupOf(field_config[i].value.list[2]) \notin LookupEnumeration

\* C2: with every configured key absent or falsy in args, ignore_deleted false and
\* no join targets, the call returns a query with an empty predicate set.
C2_AllAbsentGivesNoPredicate ==
    (/\ fn = "get_filtered_query"
     /\ pc # "call"
     /\ \A i \in 1..Len(field_config) : ~Present(field_config[i].key)
     /\ ignore_deleted = FALSE
     /\ join_models = <<>>)
        => (pc = "returned" /\ query.filter = <<>>)

\* Item i of field_config appends an entry to filter_arguments.
Contributes(i) ==
    field_config[i].value.type = "list" \/ Present(field_config[i].key)

\* The place in filter_arguments of the entry of item i.
EntryIndex(i) == Cardinality({j \in 1..i : Contributes(j)})

\* The predicate of one field configuration for args[key]: its own lookup, then
\* its own wrapper.
AlternativeOf(c, key) ==
    LET e == get_filter_arg(c.field, args[key], LookupOf(c))
    IN IF "wrapper" \in DOMAIN c THEN Wrap(c.wrapper, e) ELSE e

\* C3: in a returned query every list-valued key whose argument is present has
\* exactly one entry in the AND-set, the OR of the predicates of all the list's
\* field configurations, in order, each built from args[key].
C3_ListIsOneOrEntry ==
    (fn = "get_filtered_query" /\ pc = "returned") =>
        /\ Len(query.filter) = EntryIndex(Len(field_config)) + (IF ignore_deleted THEN 1 ELSE 0)
        /\ \A i \in 1..Len(field_config) :
              (field_config[i].value.type = "list" /\ Present(field_config[i].key)) =>
                  LET l == field_config[i].value.list
                      entry == query.filter[EntryIndex(i)]
                  IN /\ entry.op = "or_"
                     /\ Len(entry.clauses) = Len(l)
                     /\ \A n \in 1..Len(l) :
                           entry.clauses[n] = AlternativeOf(l[n], field_config[i].key)

\* A returned query holds the OR of two alternatives, one unwrapped equality and
\* one wrapped ilike, next to the entry of another key.
C3_Witness ==
    /\ fn = "get_filtered_query"
    /\ pc = "returned"
    /\ Len(field_config) = 2
    /\ Len(query.filter) >= 2
    /\ \E i \in 1..2 :
          /\ field_config[i].value.type = "list"
          /\ Present(field_config[i].key)
          /\ Len(field_config[i].value.list) = 2
          /\ query.filter[EntryIndex(i)].op = "or_"
          /\ query.filter[EntryIndex(i)].clauses[1].op = "=="
          /\ query.filter[EntryIndex(i)].clauses[2].op = "wrapper"

\* C4: for each of the 17 lookups get_filter_arg returns the documented predicate
\* on the field: the comparison, prefix, suffix, membership or container predicate
\* of value itself, the patterns %value%, value% and %value for like/ilike, istarts
\* and iends, and a nullity check of None whatever value is.
C4_DocumentedPredicate ==
    (fn = "get_filter_arg" /\ pc # "call" /\ filter_type \in LookupEnumeration) =>
        /\ pc = "returned"
        /\ filter_arg.field = field
        /\ filter_arg.op = DocumentedOperator[filter_type]
        /\ filter_type \in {"eq", "ne", "lt", "le", "gt", "ge", "starts", "ends",
                            "in", "not_in", "contains"}
              => filter_arg.arg = value
        /\ filter_type \in {"like", "ilike"}
              => IsPattern(filter_arg.arg, Format(value), TRUE, TRUE)
        /\ filter_type = "istarts" => IsPattern(filter_arg.arg, Format(value), FALSE, TRUE)
        /\ filter_type = "iends" => IsPattern(filter_arg.arg, Format(value), TRUE, FALSE)
        /\ filter_type \in {"is_null", "is_not_null"} => filter_arg.arg = None

\* istarts of the integer 12 has returned the case-insensitive pattern 12%.
C4_Witness ==
    /\ fn = "get_filter_arg"
    /\ pc = "returned"
    /\ filter_type = "istarts"
    /\ value = VInt(12)
    /\ filter_arg = Expr(field, "ilike", VStr(<<"1", "2", "%">>))

\* The number of entries of a sequence of expressions that are e.
Occurrences(exprs, e) == Cardinality({n \in 1..Len(exprs) : exprs[n] = e})

\* C5: a returned query built with ignore_deleted holds model.deleted == False
\* exactly once, as the last entry of the AND-set; one built without it holds it
\* nowhere.
C5_SoftDeleteAppended ==
    (fn = "get_filtered_query" /\ pc = "returned") =>
        IF ignore_deleted
        THEN /\ Len(query.filter) >= 1
             /\ query.filter[Len(query.filter)] = NotDeleted
             /\ Occurrences(query.filter, NotDeleted) = 1
        ELSE Occurrences(query.filter, NotDeleted) = 0

\* ignore_deleted after two configured entries, one of them for the key whose
\* dict configuration is an equality on the deleted field.
C5_Witness ==
    /\ fn = "get_filtered_query"
    /\ pc = "returned"
    /\ ignore_deleted
    /\ Len(query.filter) = 3
    /\ query.filter[3] = NotDeleted
    /\ \E i \in 1..Len(field_config) :
          /\ field_config[i].value.type = "dict"
          /\ field_config[i].value.dict.field = "deleted"

\* The call of get_paginated_data was given integers page >= 1 and size >= 1.
ValidPageArgs ==
    /\ DOMAIN page_args = {"page", "size"}
    /\ page_args["page"].t = "int" /\ page_args["page"].v >= 1
    /\ page_args["size"].t = "int" /\ page_args["size"].v >= 1

\* C6: for page >= 1 and size >= 1 the payload has total_page = ceil(total_count /
\* size) (the least t with t * size >= total_count), has_next = page < total_page,
\* has_prev = page > 1 and current_page = page; 0 rows give 0 pages and no next or
\* previous page at page 1; 25 rows at size 10 give 3 pages and a next page at page 1.
C6_PageMetadata ==
    (fn = "get_paginated_data" /\ pc # "call" /\ ValidPageArgs) =>
        LET page == page_args["page"].v
            size == page_args["size"].v
            d == serialized_data
        IN /\ pc = "returned"
           /\ d.total_page >= 0
           /\ d.total_page * size >= d.total_count
           /\ d.total_page > 0 => (d.total_page - 1) * size < d.total_count
           /\ d.has_next = (page < d.total_page)
           /\ d.has_prev = (page > 1)
           /\ d.current_page = page
           /\ (Len(query) = 0 /\ page = 1)
                 => (d.total_page = 0 /\ ~d.has_next /\ ~d.has_prev)
           /\ (Len(query) = 25 /\ size = 10 /\ page = 1)
                 => (d.total_page = 3 /\ d.has_next /\ ~d.has_prev)

\* Page 1 of 25 rows at size 10 has been returned.
C6_Witness ==
    /\ fn = "get_paginated_data"
    /\ pc = "returned"
    /\ Len(query) = 25
    /\ page_args = [page |-> VInt(1), size |-> VInt(10)]
    /\ serialized_data.total_page = 3

Max(a, b) == IF a > b THEN a ELSE b

\* C7: for page >= 1 and size >= 1 the items are the rows at positions
\* (page-1)*size up to page*size (exclusive) of the query's result, so there are
\* min(size, max(0, N - (page-1)*size)) of them, and total_count is N.
C7_PageWindow ==
    (fn = "get_paginated_data" /\ pc # "call" /\ ValidPageArgs) =>
        LET page == page_args["page"].v
            size == page_args["size"].v
            N == Len(query)
            d == serialized_data
        IN /\ pc = "returned"
           /\ d.total_count = N
           /\ Len(d.items) = Min(size, Max(0, N - (page - 1) * size))
           /\ \A i \in 1..Len(d.items) : d.items[i] = Dump(query[(page - 1) * size + i])
           /\ (N = 25 /\ size = 10 /\ page = 1) => Len(d.items) = 10
           /\ (N = 25 /\ size = 10 /\ page = 3) => Len(d.items) = 5
           /\ N = 0 => d.items = <<>>

\* Page 3 of 25 rows at size 10 has been returned, with its 5 rows.
C7_Witness ==
    /\ fn = "get_paginated_data"
    /\ pc = "returned"
    /\ Len(query) = 25
    /\ page_args = [page |-> VInt(3), size |-> VInt(10)]
    /\ Len(serialized_data.items) = 5
    /\ serialized_data.items[1] = Dump(21)

\* C8: a call of get_paginated_data with size = 0 never returns a page payload.
C8_SizeZeroFails ==
    (/\ fn = "get_paginated_data"
     /\ "size" \in DOMAIN page_args
     /\ page_args["size"].t = "int"
     /\ page_args["size"].v = 0)
        => pc # "returned"

\* C9: get_page_args returns {page, size} for every args, without an error, page
\* being 1 when the key is missing or its value falsy and size 10 likewise.
C9_DefaultsForMissing ==
    [][(fn = "get_page_args" /\ pc = "call") =>
          /\ pc' = "returned"
          /\ page_args' = [page |-> OrDefault(DictGet(args, "page"), VInt(1)),
                           size |-> OrDefault(DictGet(args, "size"), VInt(10))]]_vars

\* C10 as stated: with both keys in args the call returns the two values of args
\* and leaves args without the two keys and otherwise unchanged.
C10_ReturnsValuesAndPops ==
    [][(fn = "get_page_args" /\ pc = "call" /\ {"page", "size"} \subseteq DOMAIN args) =>
          /\ pc' = "returned"
          /\ page_args' = [page |-> args["page"], size |-> args["size"]]
          /\ DOMAIN args' = DOMAIN args \ {"page", "size"}
          /\ \A k \in DOMAIN args' : args'[k] = args[k]]_vars

\* C10 amended: with both keys in args the call returns the two values of args, a
\* falsy page replaced by 1 and a falsy size by 10, and leaves args without the
\* two keys and otherwise unchanged.
C10_ReturnsTruthyValuesAndPops ==
    [][(fn = "get_page_args" /\ pc = "call" /\ {"page", "size"} \subseteq DOMAIN args) =>
          /\ pc' = "returned"
          /\ page_args' = [page |-> IF Truthy(args["page"]) THEN args["page"] ELSE VInt(1),
                           size |-> IF Truthy(args["size"]) THEN args["size"] ELSE VInt(10)]
          /\ DOMAIN args' = DOMAIN args \ {"page", "size"}
          /\ \A k \in DOMAIN args' : args'[k] = args[k]]_vars

\* get_page_args has returned {page: 2, size: 20} and left {q: "x"} of
\* {page: 2, size: 20, q: "x"}.
C10_Witness ==
    /\ fn = "get_page_args"
    /\ pc = "returned"
    /\ page_args = [page |-> VInt(2), size |-> VInt(20)]
    /\ args = [q |-> VStr(<<"x">>)]

====
